---- MODULE Spec2Model ----
(***************************************************************************)
(* Error / exception / panic bridging layer of rquickjs                    *)
(* (core/src/result.rs): the Error taxonomy and its Display rendering,     *)
(* Error::to_cstring, Error::throw, and the per-context pending-panic slot *)
(* driven by Ctx::handle_panic, Ctx::handle_exception and                  *)
(* Ctx::raise_exception.                                                   *)
(*                                                                         *)
(* Text is modelled as a sequence of bytes (naturals); Option<T> as a      *)
(* sequence of length at most one (<<>> is None, <<x>> is Some(x)).        *)
(***************************************************************************)
EXTENDS Integers, Sequences, FiniteSets, TLC

\* ------------------------------------------------------------------ bounds
\* longest message / base / name payload string that is enumerated
MaxLen == 2
\* number of panics intercepted in one behaviour of the flat specification
MaxPanics == 2
\* deepest nesting of host -> engine -> callback calls
MaxDepth == 3

\* usize::MAX, at the widest value a TLC integer holds; the code
\* only compares against it (expected.end < usize::MAX).
UsizeMax == 2147483647

\* ------------------------------------------------------------------- text
\* bytes a payload string is built from: the terminator (NUL) and 'a'
Bytes == {0, 97}

\* every StdString of at most MaxLen bytes
Strings == UNION {[1..n -> Bytes] : n \in 0..MaxLen}

OptionOf(S) == {<<>>} \cup {<<s>> : s \in S}

\* "Allocation failed while creating object"  (result.rs:275)
TxtAllocation ==
    <<65, 108, 108, 111, 99, 97, 116, 105, 111, 110, 32, 102, 97, 105, 108, 101, 100, 32, 119, 104, 105, 108, 101, 32, 99, 114, 101, 97, 116, 105, 110, 103, 32, 111, 98, 106, 101, 99, 116>>
\* "Tried to export two values with the same name from one module"  (result.rs:277)
TxtDuplicateExports ==
    <<84, 114, 105, 101, 100, 32, 116, 111, 32, 101, 120, 112, 111, 114, 116, 32, 116, 119, 111, 32, 118, 97, 108, 117, 101, 115, 32, 119, 105, 116, 104, 32, 116, 104, 101, 32, 115, 97, 109, 101, 32, 110, 97, 109, 101, 32, 102, 114, 111, 109, 32, 111, 110, 101, 32, 109, 111, 100, 117, 108, 101>>
\* "String contained internal null bytes: "  (result.rs:280)
TxtInvalidString ==
    <<83, 116, 114, 105, 110, 103, 32, 99, 111, 110, 116, 97, 105, 110, 101, 100, 32, 105, 110, 116, 101, 114, 110, 97, 108, 32, 110, 117, 108, 108, 32, 98, 121, 116, 101, 115, 58, 32>>
\* "CStr didn't end in a null byte: "  (result.rs:284)
TxtInvalidCStr ==
    <<67, 83, 116, 114, 32, 100, 105, 100, 110, 39, 116, 32, 101, 110, 100, 32, 105, 110, 32, 97, 32, 110, 117, 108, 108, 32, 98, 121, 116, 101, 58, 32>>
\* "Conversion from string failed: "  (result.rs:288)
TxtUtf8 ==
    <<67, 111, 110, 118, 101, 114, 115, 105, 111, 110, 32, 102, 114, 111, 109, 32, 115, 116, 114, 105, 110, 103, 32, 102, 97, 105, 108, 101, 100, 58, 32>>
\* "quickjs library created a unknown error"  (result.rs:291)
TxtUnknown ==
    <<113, 117, 105, 99, 107, 106, 115, 32, 108, 105, 98, 114, 97, 114, 121, 32, 99, 114, 101, 97, 116, 101, 100, 32, 97, 32, 117, 110, 107, 110, 111, 119, 110, 32, 101, 114, 114, 111, 114>>
\* "quickjs generated an exception"  (result.rs:292)
TxtException ==
    <<113, 117, 105, 99, 107, 106, 115, 32, 103, 101, 110, 101, 114, 97, 116, 101, 100, 32, 97, 110, 32, 101, 120, 99, 101, 112, 116, 105, 111, 110>>
\* "Error converting from js '"  (result.rs:294)
TxtFromJs ==
    <<69, 114, 114, 111, 114, 32, 99, 111, 110, 118, 101, 114, 116, 105, 110, 103, 32, 102, 114, 111, 109, 32, 106, 115, 32, 39>>
\* "' into type '"  (result.rs:296)
TxtIntoType ==
    <<39, 32, 105, 110, 116, 111, 32, 116, 121, 112, 101, 32, 39>>
\* "'"  (result.rs:298)
TxtQuote ==
    <<39>>
\* ": "  (result.rs:301)
TxtColon ==
    <<58, 32>>
\* "Error converting from '"  (result.rs:307)
TxtIntoJs ==
    <<69, 114, 114, 111, 114, 32, 99, 111, 110, 118, 101, 114, 116, 105, 110, 103, 32, 102, 114, 111, 109, 32, 39>>
\* "' into js '"  (result.rs:309)
TxtIntoJsTo ==
    <<39, 32, 105, 110, 116, 111, 32, 106, 115, 32, 39>>
\* "Error calling function with "  (result.rs:320)
TxtNumArgs ==
    <<69, 114, 114, 111, 114, 32, 99, 97, 108, 108, 105, 110, 103, 32, 102, 117, 110, 99, 116, 105, 111, 110, 32, 119, 105, 116, 104, 32>>
\* " argument(s) while "  (result.rs:322)
TxtArgsWhile ==
    <<32, 97, 114, 103, 117, 109, 101, 110, 116, 40, 115, 41, 32, 119, 104, 105, 108, 101, 32>>
\* ".."  (result.rs:324)
TxtDotDot ==
    <<46, 46>>
\* " expected"  (result.rs:328)
TxtExpected ==
    <<32, 101, 120, 112, 101, 99, 116, 101, 100>>
\* "Error resolving module '"  (result.rs:336)
TxtResolving ==
    <<69, 114, 114, 111, 114, 32, 114, 101, 115, 111, 108, 118, 105, 110, 103, 32, 109, 111, 100, 117, 108, 101, 32, 39>>
\* "' from '"  (result.rs:338)
TxtFrom ==
    <<39, 32, 102, 114, 111, 109, 32, 39>>
\* "Error loading module '"  (result.rs:350)
TxtLoading ==
    <<69, 114, 114, 111, 114, 32, 108, 111, 97, 100, 105, 110, 103, 32, 109, 111, 100, 117, 108, 101, 32, 39>>
\* "IO Error: "  (result.rs:361)
TxtIo ==
    <<73, 79, 32, 69, 114, 114, 111, 114, 58, 32>>
\* "Restoring Persistent in an unrelated runtime"  (result.rs:364)
TxtUnrelatedRuntime ==
    <<82, 101, 115, 116, 111, 114, 105, 110, 103, 32, 80, 101, 114, 115, 105, 115, 116, 101, 110, 116, 32, 105, 110, 32, 97, 110, 32, 117, 110, 114, 101, 108, 97, 116, 101, 100, 32, 114, 117, 110, 116, 105, 109, 101>>
\* "generated error while throwing error: "  (result.rs:258)
TxtPanicMsg ==
    <<103, 101, 110, 101, 114, 97, 116, 101, 100, 32, 101, 114, 114, 111, 114, 32, 119, 104, 105, 108, 101, 32, 116, 104, 114, 111, 119, 105, 110, 103, 32, 101, 114, 114, 111, 114, 58, 32>>
\* "message"  (result.rs:254)
TxtMessageKey ==
    <<109, 101, 115, 115, 97, 103, 101>>

\* usize as Display renders it: decimal digits, no sign, no padding
RECURSIVE Decimal(_)
Decimal(n) ==
    IF n < 10 THEN <<48 + n>> ELSE Decimal(n \div 10) \o <<48 + (n % 10)>>

\* &'static str type-name labels of FromJs / IntoJs: "Object", "u32"
Labels ==
    {<<79, 98, 106, 101, 99, 116>>, <<117, 51, 50>>}

\* what the std payloads (NulError, FromBytesWithNulError, Utf8Error, IoError)
\* render to with error.fmt(f):
\* "data provided is not nul terminated", "invalid utf-8 sequence"
StdErrorTexts ==
    {<<100, 97, 116, 97, 32, 112, 114, 111, 118, 105, 100, 101, 100, 32, 105, 115, 32, 110, 111, 116, 32, 110, 117, 108, 32, 116, 101, 114, 109, 105, 110, 97, 116, 101, 100>>,
     <<105, 110, 118, 97, 108, 105, 100, 32, 117, 116, 102, 45, 56, 32, 115, 101, 113, 117, 101, 110, 99, 101>>}

\* Range<usize> values of NumArgs.expected, with start <= end
Ranges ==
    {[start |-> s, end |-> e] : s \in {0, 1}, e \in {1, 3, UsizeMax}}

Givens == {0, 5, 10}

\* enum Error, over the given payload sets
ErrorsOver(labels, names, messages, ranges, givens) ==
    {[variant |-> v] :
        v \in {"Allocation", "DuplicateExports", "Exception", "UnrelatedRuntime", "Unknown"}}
    \cup {[variant |-> v, error |-> t] :
        v \in {"InvalidString", "InvalidCStr", "Utf8", "Io"}, t \in StdErrorTexts}
    \cup {[variant |-> v, from |-> f, to |-> t, message |-> m] :
        v \in {"FromJs", "IntoJs"}, f \in labels, t \in labels, m \in messages}
    \cup {[variant |-> "NumArgs", expected |-> r, given |-> g] :
        r \in ranges, g \in givens}
    \cup {[variant |-> "Resolving", base |-> b, name |-> n, message |-> m] :
        b \in names, n \in names, m \in messages}
    \cup {[variant |-> "Loading", name |-> n, message |-> m] :
        n \in names, m \in messages}

\* the errors rendered by the formatting specification
FmtErrors == ErrorsOver(Labels, Strings, OptionOf(Strings), Ranges, Givens)

\* if let Some(message) = message { if !message.is_empty() { ": " message } }
MessageSuffix(message) ==
    IF message # <<>> /\ message[1] # <<>> THEN TxtColon \o message[1] ELSE <<>>

\* impl Display for Error
fmt(e) ==
    CASE e.variant = "Allocation" -> TxtAllocation
      [] e.variant = "DuplicateExports" -> TxtDuplicateExports
      [] e.variant = "InvalidString" -> TxtInvalidString \o e.error
      [] e.variant = "InvalidCStr" -> TxtInvalidCStr \o e.error
      [] e.variant = "Utf8" -> TxtUtf8 \o e.error
      [] e.variant = "Unknown" -> TxtUnknown
      [] e.variant = "Exception" -> TxtException
      [] e.variant = "FromJs" ->
            TxtFromJs \o e.from \o TxtIntoType \o e.to \o TxtQuote
                \o MessageSuffix(e.message)
      [] e.variant = "IntoJs" ->
            TxtIntoJs \o e.from \o TxtIntoJsTo \o e.to \o TxtQuote
                \o MessageSuffix(e.message)
      [] e.variant = "NumArgs" ->
            TxtNumArgs \o Decimal(e.given) \o TxtArgsWhile
                \o Decimal(e.expected.start) \o TxtDotDot
                \o (IF e.expected.end < UsizeMax THEN Decimal(e.expected.end) ELSE <<>>)
                \o TxtExpected
      [] e.variant = "Resolving" ->
            TxtResolving \o e.name \o TxtFrom \o e.base \o TxtQuote
                \o MessageSuffix(e.message)
      [] e.variant = "Loading" ->
            TxtLoading \o e.name \o TxtQuote \o MessageSuffix(e.message)
      [] e.variant = "Io" -> TxtIo \o e.error
      [] e.variant = "UnrelatedRuntime" -> TxtUnrelatedRuntime

\* ToString::to_string, which is Display::fmt into a fresh String
to_string(e) == fmt(e)

\* Error::to_cstring.  The result is the CString's buffer, terminator included.
\* format!("{self}\0") ; pop ; CString::from_vec_unchecked, which pushes one
\* terminator and does not look at the bytes it is given.
to_cstring(e) ==
    LET message == fmt(e) \o <<0>>
        popped == SubSeq(message, 1, Len(message) - 1)
    IN  popped \o <<0>>

\* index of the first terminator byte of a buffer (Len + 1 when there is none)
RECURSIVE FirstZero(_, _)
FirstZero(bytes, i) ==
    IF i > Len(bytes) THEN i
    ELSE IF bytes[i] = 0 THEN i ELSE FirstZero(bytes, i + 1)

\* what a reader of `*const c_char` (CString::as_ptr) sees: the bytes before
\* the first terminator
CStrRead(bytes) == SubSeq(bytes, 1, FirstZero(bytes, 1) - 1)

\* ------------------------------------------------------ native values (qjs)
JS_TAG_EXCEPTION == "exception"

\* a JSValue: its tag, its immediate payload and, for an object, the class
\* and `message` property of the object it refers to
JS_MKVAL(tag, val) == [tag |-> tag, val |-> val, class |-> "", message |-> <<>>]

JS_EXCEPTION == JS_MKVAL(JS_TAG_EXCEPTION, 0)

JS_VALUE_GET_NORM_TAG(v) == v.tag

\* an engine object of the given class carrying the given `message` property
JS_Object(class, message) ==
    [tag |-> "object", val |-> 1, class |-> class, message |-> message]

\* native values a callback or an engine call hands back
NativeValues ==
    {JS_EXCEPTION, JS_MKVAL("undefined", 0), JS_MKVAL("int", 1)}

\* ---------------------------------------------------- engine operations
\* Each returns the native value it hands back and the context's pending
\* exception afterwards (an Option<JSValue>).

\* marks the given value as the pending exception, returns the sentinel
JS_Throw(exc, v) == [result |-> JS_EXCEPTION, exception |-> <<v>>]

JS_ThrowOutOfMemory(exc) ==
    JS_Throw(exc, JS_Object("OutOfMemory", <<>>))

\* the three message-taking constructors read a null-terminated message
JS_ThrowTypeError(exc, msg) ==
    JS_Throw(exc, JS_Object("TypeError", <<CStrRead(msg)>>))

JS_ThrowReferenceError(exc, msg) ==
    JS_Throw(exc, JS_Object("ReferenceError", <<CStrRead(msg)>>))

JS_ThrowInternalError(exc, msg) ==
    JS_Throw(exc, JS_Object("InternalError", <<CStrRead(msg)>>))

\* the generic error constructor: a fresh Error object, or, under memory
\* pressure, the exception sentinel with out-of-memory pending
JS_NewError(exc, ok) ==
    IF ok THEN [result |-> JS_Object("Error", <<>>), exception |-> exc]
    ELSE JS_ThrowOutOfMemory(exc)

\* Object::set(key, value) -> Result<()>: `res` is what the engine and the
\* conversions answer, <<>> for Ok(()) and <<e>> for Err(e).  Err(Exception)
\* leaves an engine exception pending.
Object_set(obj, key, value, exc, res) ==
    IF res = <<>>
    THEN [result |-> res, obj |-> [obj EXCEPT !.message = <<value>>], exception |-> exc]
    ELSE IF res[1].variant = "Exception"
    THEN [result |-> res, obj |-> obj, exception |-> JS_ThrowOutOfMemory(exc).exception]
    ELSE [result |-> res, obj |-> obj, exception |-> exc]

\* ------------------------------------------------------ outcomes of a call
\* a function returning a JSValue returned v
Return(v) == [kind |-> "return", value |-> <<v>>, error |-> <<>>, payload |-> <<>>]
\* a function returning Result<JSValue> returned Ok(v) / Err(e)
Ok(v) == [kind |-> "Ok", value |-> <<v>>, error |-> <<>>, payload |-> <<>>]
Err(e) == [kind |-> "Err", value |-> <<>>, error |-> <<e>>, payload |-> <<>>]
\* a function returning an Error returned e
ReturnError(e) == [kind |-> "error", value |-> <<>>, error |-> <<e>>, payload |-> <<>>]
\* the call unwound with a panic carrying payload p
Unwind(p) == [kind |-> "panic", value |-> <<>>, error |-> <<>>, payload |-> <<p>>]

\* a panic payload (Box<dyn Any + Send>): what it carries, and the number of
\* the interception that stashed it (0 while it was never intercepted)
Payload(id, data) == [id |-> id, data |-> data]

\* payloads a callback panics with: "P1", "P2"
PanicData == {<<80, 49>>, <<80, 50>>}

\* --------------------------------------------------------- Error::throw
\* env.newError: whether JS_NewError succeeds; env.set: the Result of obj.set

\* a throw that goes on to obj.set and JS_Throw whatever JS_NewError returned
throw_generic_NoTagCheck(e, exc, env) ==
    LET new == JS_NewError(exc, env.newError)
        s == Object_set(new.result, TxtMessageKey, to_string(e), new.exception, env.set)
        t == JS_Throw(s.exception, s.obj)
    IN  [outcome |-> Return(t.result), exception |-> t.exception,
         calls |-> <<"JS_NewError", "Object::set", "JS_Throw">>]

\* a throw that hands back the error object it built instead of what
\* JS_Throw returned
throw_generic_ReturnsObject(e, exc, env) ==
    LET new == JS_NewError(exc, env.newError)
        s == Object_set(new.result, TxtMessageKey, to_string(e), new.exception, env.set)
        t == JS_Throw(s.exception, s.obj)
    IN  [outcome |-> Return(s.obj), exception |-> t.exception,
         calls |-> <<"JS_NewError", "Object::set", "JS_Throw">>]

\* the last arm of the match in throw (`error => { .. }`)
throw_generic(e, exc, env) ==
    LET new == JS_NewError(exc, env.newError)
    IN  IF JS_VALUE_GET_NORM_TAG(new.result) = JS_TAG_EXCEPTION
        THEN [outcome |-> Return(new.result), exception |-> new.exception,
              calls |-> <<"JS_NewError">>]
        ELSE LET s == Object_set(new.result, TxtMessageKey, to_string(e),
                                 new.exception, env.set)
             IN  IF s.result = <<>>
                 THEN LET t == JS_Throw(s.exception, s.obj)
                      IN  [outcome |-> Return(t.result),
                           exception |-> t.exception,
                           calls |-> <<"JS_NewError", "Object::set", "JS_Throw">>]
                 ELSE IF s.result[1].variant = "Exception"
                 THEN [outcome |-> Return(JS_EXCEPTION),
                       exception |-> s.exception,
                       calls |-> <<"JS_NewError", "Object::set">>]
                 ELSE [outcome |-> Unwind(Payload(0, TxtPanicMsg \o fmt(s.result[1]))),
                       exception |-> s.exception,
                       calls |-> <<"JS_NewError", "Object::set">>]

throw(e, exc, env) ==
    CASE e.variant = "Exception" ->
            [outcome |-> Return(JS_EXCEPTION), exception |-> exc, calls |-> <<>>]
      [] e.variant = "Allocation" ->
            LET r == JS_ThrowOutOfMemory(exc)
            IN  [outcome |-> Return(r.result), exception |-> r.exception,
                 calls |-> <<"JS_ThrowOutOfMemory">>]
      [] e.variant \in {"InvalidString", "Utf8", "FromJs", "IntoJs", "NumArgs"} ->
            LET r == JS_ThrowTypeError(exc, to_cstring(e))
            IN  [outcome |-> Return(r.result), exception |-> r.exception,
                 calls |-> <<"JS_ThrowTypeError">>]
      [] e.variant \in {"Resolving", "Loading"} ->
            LET r == JS_ThrowReferenceError(exc, to_cstring(e))
            IN  [outcome |-> Return(r.result), exception |-> r.exception,
                 calls |-> <<"JS_ThrowReferenceError">>]
      [] e.variant = "Unknown" ->
            LET r == JS_ThrowInternalError(exc, to_cstring(e))
            IN  [outcome |-> Return(r.result), exception |-> r.exception,
                 calls |-> <<"JS_ThrowInternalError">>]
      [] OTHER -> throw_generic(e, exc, env)

\* ------------------------------------------- the pending-panic slot (Ctx)
\* a take that reads the slot and leaves the payload in it
take_Peek(slot) == [taken |-> slot, slot |-> slot]

\* Option::take on the slot: what was in it, and the slot afterwards
take(slot) == [taken |-> slot, slot |-> <<>>]

\* a ferry that keeps the payload already pending instead of replacing it
handle_panic_KeepFirst(slot, exc, work) ==
    IF work.kind = "return"
    THEN [outcome |-> Return(work.value[1]), panic |-> slot, exception |-> exc,
          calls |-> <<>>]
    ELSE LET t == JS_Throw(exc, JS_MKVAL(JS_TAG_EXCEPTION, 0))
         IN  [outcome |-> Return(t.result),
              panic |-> IF slot = <<>> THEN <<work.payload[1]>> ELSE slot,
              exception |-> t.exception, calls |-> <<"JS_Throw">>]

\* a ferry that reports the panic to the engine as an internal error with a
\* message
handle_panic_ThrowError(slot, exc, work) ==
    IF work.kind = "return"
    THEN [outcome |-> Return(work.value[1]), panic |-> slot, exception |-> exc,
          calls |-> <<>>]
    ELSE LET t == JS_ThrowInternalError(exc, work.payload[1].data \o <<0>>)
         IN  [outcome |-> Return(t.result), panic |-> <<work.payload[1]>>,
              exception |-> t.exception, calls |-> <<"JS_ThrowInternalError">>]

\* a ferry that raises the sentinel and loses the payload
handle_panic_NoStash(slot, exc, work) ==
    IF work.kind = "return"
    THEN [outcome |-> Return(work.value[1]), panic |-> slot, exception |-> exc,
          calls |-> <<>>]
    ELSE LET t == JS_Throw(exc, JS_MKVAL(JS_TAG_EXCEPTION, 0))
         IN  [outcome |-> Return(t.result), panic |-> slot,
              exception |-> t.exception, calls |-> <<"JS_Throw">>]

\* Ctx::handle_panic.  `work` is what panic::catch_unwind(f) observes:
\* Return(x) when f returned x, Unwind(p) when f panicked with p.
handle_panic(slot, exc, work) ==
    IF work.kind = "return"
    THEN [outcome |-> Return(work.value[1]), panic |-> slot, exception |-> exc,
          calls |-> <<>>]
    ELSE LET t == JS_Throw(exc, JS_MKVAL(JS_TAG_EXCEPTION, 0))
         IN  [outcome |-> Return(t.result), panic |-> <<work.payload[1]>>,
              exception |-> t.exception, calls |-> <<"JS_Throw">>]

\* a resolver that empties the slot and reports every sentinel as
\* Err(Exception)
handle_exception_NoResume(slot, js_val) ==
    IF JS_VALUE_GET_NORM_TAG(js_val) # JS_TAG_EXCEPTION
    THEN [outcome |-> Ok(js_val), panic |-> slot]
    ELSE [outcome |-> Err([variant |-> "Exception"]), panic |-> <<>>]

\* a resolver that takes the slot before it looks at the tag
handle_exception_TakeFirst(slot, js_val) ==
    LET t == take(slot)
    IN  IF JS_VALUE_GET_NORM_TAG(js_val) # JS_TAG_EXCEPTION
        THEN [outcome |-> Ok(js_val), panic |-> t.slot]
        ELSE IF t.taken # <<>>
        THEN [outcome |-> Unwind(t.taken[1]), panic |-> t.slot]
        ELSE [outcome |-> Err([variant |-> "Exception"]), panic |-> t.slot]

\* Ctx::handle_exception
handle_exception(slot, js_val) ==
    IF JS_VALUE_GET_NORM_TAG(js_val) # JS_TAG_EXCEPTION
    THEN [outcome |-> Ok(js_val), panic |-> slot]
    ELSE LET t == take(slot)
         IN  IF t.taken # <<>>
             THEN [outcome |-> Unwind(t.taken[1]), panic |-> t.slot]
             ELSE [outcome |-> Err([variant |-> "Exception"]), panic |-> t.slot]

\* Ctx::raise_exception
raise_exception(slot) ==
    LET t == take(slot)
    IN  IF t.taken # <<>>
        THEN [outcome |-> Unwind(t.taken[1]), panic |-> t.slot]
        ELSE [outcome |-> ReturnError([variant |-> "Exception"]), panic |-> t.slot]

\* ------------------------------------------------------------------ state
VARIABLES
    panic,      \* the context's pending-panic slot (Opaque.panic), an Option
    exception,  \* the engine context's pending exception, an Option<JSValue>
    op,         \* the operation that ran last: its inputs, outcome, engine calls
    prev,       \* the operation that ran before it
    nstored,    \* how many panics have been intercepted so far
    stores,     \* per interception: how often its payload was put in the slot
    takes,      \* per interception: how often its payload was taken out
    shown,      \* the last error rendered: its text and its C string
    frames,     \* the call stack above the host: "engine" and "callback" frames
    flight,     \* what leaves the top frame: nothing yet, a value, or a panic
    raised,     \* the payload of the panic a callback raised, once one did
    origin,     \* how many callbacks were on the stack when it was raised
    stashes,    \* how many ferries have stashed that panic
    resumes     \* how many resolvers have resumed it

nestVars == <<frames, flight, raised, origin, stashes, resumes>>

vars ==
    <<panic, exception, op, prev, nstored, stores, takes, shown, nestVars>>

Ids == 1..MaxPanics

Op(name, work, js_val, error, env, outcome, calls) ==
    [name |-> name, work |-> work, js_val |-> js_val, error |-> error,
     env |-> env, outcome |-> outcome, calls |-> calls]

\* what of an operation the next one is compared with
Summary(o) ==
    [name |-> o.name, work |-> o.work, error |-> o.error, outcome |-> o.outcome]

\* the state after a context is created: the slot is empty, nothing is pending
NoOp == Op("new", <<>>, <<>>, <<>>, <<>>, Return(JS_MKVAL("undefined", 0)), <<>>)

Init ==
    /\ panic = <<>>
    /\ exception = <<>>
    /\ op = NoOp
    /\ prev = Summary(NoOp)
    /\ nstored = 0
    /\ stores = [i \in Ids |-> 0]
    /\ takes = [i \in Ids |-> 0]
    /\ shown = <<>>
    /\ frames = <<>>
    /\ flight = <<>>
    /\ raised = <<>>
    /\ origin = 0
    /\ stashes = 0
    /\ resumes = 0

\* the errors materialized by the materializer specification: every variant,
\* the optional message ranging over all strings, one label, one module name
ThrowErrors ==
    ErrorsOver({<<117, 51, 50>>}, {<<97>>}, OptionOf(Strings),
               {[start |-> 1, end |-> 3], [start |-> 2, end |-> UsizeMax]}, {5})

\* the errors materialized between ferry and resolver steps: one per arm of
\* the match in throw
ProtocolErrors ==
    {[variant |-> "Exception"], [variant |-> "Allocation"], [variant |-> "Unknown"],
     [variant |-> "DuplicateExports"],
     [variant |-> "NumArgs", expected |-> [start |-> 1, end |-> 3], given |-> 5],
     [variant |-> "Loading", name |-> <<97>>, message |-> <<>>]}

GenericVariants == {"DuplicateExports", "InvalidCStr", "Io", "UnrelatedRuntime"}

\* what the engine may answer on the generic path of throw: JS_NewError
\* succeeds or not, obj.set answers Ok(()), Err(Exception) or another error
Envs(e) ==
    IF e.variant \in GenericVariants
    THEN {[newError |-> TRUE, set |-> s] :
            s \in {<<>>, <<[variant |-> "Exception"]>>, <<[variant |-> "Allocation"]>>}}
         \cup {[newError |-> FALSE, set |-> <<>>]}
    ELSE {[newError |-> TRUE, set |-> <<>>]}

\* bookkeeping of a resolver step: the payload it took, if any, is counted
Taken(outcome) ==
    IF outcome.kind = "panic"
    THEN [takes EXCEPT ![outcome.payload[1].id] = @ + 1]
    ELSE takes

\* a callback runs under handle_panic and returns a value
FerryReturn(v) ==
    LET work == Return(v)
        r == handle_panic(panic, exception, work)
    IN  /\ panic' = r.panic
        /\ exception' = r.exception
        /\ op' = Op("handle_panic", <<work>>, <<>>, <<>>, <<>>, r.outcome, r.calls)
        /\ prev' = Summary(op)
        /\ UNCHANGED <<nstored, stores, takes, shown, nestVars>>

\* a callback runs under handle_panic and panics with a fresh payload
FerryPanic(data) ==
    /\ nstored < MaxPanics
    /\ LET work == Unwind(Payload(nstored + 1, data))
           r == handle_panic(panic, exception, work)
       IN  /\ panic' = r.panic
           /\ exception' = r.exception
           /\ op' = Op("handle_panic", <<work>>, <<>>, <<>>, <<>>, r.outcome, r.calls)
           /\ prev' = Summary(op)
           /\ nstored' = nstored + 1
           /\ stores' = IF r.panic = work.payload
                        THEN [stores EXCEPT ![nstored + 1] = @ + 1]
                        ELSE stores
           /\ UNCHANGED <<takes, shown, nestVars>>

\* the value an engine call returned is passed to handle_exception
Resolve(js_val) ==
    LET r == handle_exception(panic, js_val)
    IN  /\ panic' = r.panic
        /\ op' = Op("handle_exception", <<>>, <<js_val>>, <<>>, <<>>, r.outcome, <<>>)
        /\ prev' = Summary(op)
        /\ takes' = Taken(r.outcome)
        /\ UNCHANGED <<exception, nstored, stores, shown, nestVars>>

RaiseException ==
    LET r == raise_exception(panic)
    IN  /\ panic' = r.panic
        /\ op' = Op("raise_exception", <<>>, <<>>, <<>>, <<>>, r.outcome, <<>>)
        /\ prev' = Summary(op)
        /\ takes' = Taken(r.outcome)
        /\ UNCHANGED <<exception, nstored, stores, shown, nestVars>>

\* a host error is materialized into the context
Throw(e, env) ==
    LET r == throw(e, exception, env)
    IN  /\ exception' = r.exception
        /\ op' = Op("throw", <<>>, <<>>, <<e>>, <<env>>, r.outcome, r.calls)
        /\ prev' = Summary(op)
        /\ UNCHANGED <<panic, nstored, stores, takes, shown, nestVars>>

\* the native value the last operation handed back, if it handed one back
LastReturned == {op.outcome.value[i] : i \in 1..Len(op.outcome.value)}

Next ==
    \/ \E v \in NativeValues : FerryReturn(v)
    \/ \E d \in PanicData : FerryPanic(d)
    \/ \E v \in NativeValues \cup LastReturned : Resolve(v)
    \/ RaiseException
    \/ \E e \in ProtocolErrors : \E env \in Envs(e) : Throw(e, env)

Spec == Init /\ [][Next]_vars

\* -------------------------------------------- the materializer specification
ThrowNext == \E e \in ThrowErrors : \E env \in Envs(e) : Throw(e, env)

ThrowSpec == Init /\ [][ThrowNext]_vars

\* --------------------------------------------- the formatting specification
Format(e) ==
    /\ shown' = <<[error |-> e, text |-> fmt(e), cstring |-> to_cstring(e)]>>
    /\ UNCHANGED <<panic, exception, op, prev, nstored, stores, takes, nestVars>>

FmtNext == \E e \in FmtErrors : Format(e)

FmtSpec == Init /\ [][FmtNext]_vars

\* ------------------------------------------------ the nested specification
\* Host code calls into the engine (each call wrapped by handle_exception),
\* the engine invokes callbacks (each wrapped by handle_panic), and callbacks
\* call into the engine again, MaxDepth calls deep.  The engine hands the
\* sentinel a callback returned on to its own caller.

Top == IF frames = <<>> THEN "host" ELSE frames[Len(frames)]

Pop(s) == SubSeq(s, 1, Len(s) - 1)

Count(kind) == Cardinality({i \in 1..Len(frames) : frames[i] = kind})

Running == flight = <<>>

\* host or callback code calls into the engine
CallEngine ==
    /\ Running
    /\ Top \in {"host", "callback"}
    /\ Count("engine") < MaxDepth
    /\ frames' = Append(frames, "engine")
    /\ UNCHANGED <<panic, exception, op, prev, nstored, stores, takes, shown,
                   flight, raised, origin, stashes, resumes>>

\* the engine invokes a host callback
InvokeCallback ==
    /\ Running
    /\ Top = "engine"
    /\ frames' = Append(frames, "callback")
    /\ UNCHANGED <<panic, exception, op, prev, nstored, stores, takes, shown,
                   flight, raised, origin, stashes, resumes>>

\* the engine call completes on its own: with a value, or, the script having
\* thrown, with the sentinel and an exception pending
EngineReturns(v) ==
    /\ Running
    /\ Top = "engine"
    /\ flight' = <<Return(v)>>
    /\ exception' = IF JS_VALUE_GET_NORM_TAG(v) = JS_TAG_EXCEPTION
                    THEN <<JS_Object("Error", <<>>)>>
                    ELSE exception
    /\ UNCHANGED <<panic, op, prev, nstored, stores, takes, shown,
                   frames, raised, origin, stashes, resumes>>

\* the callback completes with a value
CallbackReturns(v) ==
    /\ Running
    /\ Top = "callback"
    /\ JS_VALUE_GET_NORM_TAG(v) # JS_TAG_EXCEPTION
    /\ flight' = <<Return(v)>>
    /\ UNCHANGED <<panic, exception, op, prev, nstored, stores, takes, shown,
                   frames, raised, origin, stashes, resumes>>

\* the callback fails with a host error and returns what throw returned; a
\* throw that panics is a panic raised in the callback
CallbackThrows(e, env) ==
    /\ Running
    /\ Top = "callback"
    /\ LET r == throw(e, exception, env)
       IN  /\ flight' = <<r.outcome>>
           /\ exception' = r.exception
           /\ raised' = IF r.outcome.kind = "panic"
                        THEN <<r.outcome.payload[1].data>> ELSE raised
           /\ origin' = IF r.outcome.kind = "panic" THEN Count("callback") ELSE origin
    /\ UNCHANGED <<panic, op, prev, nstored, stores, takes, shown,
                   frames, stashes, resumes>>

\* the callback panics with payload P
CallbackPanics(data) ==
    /\ Running
    /\ Top = "callback"
    /\ flight' = <<Unwind(Payload(0, data))>>
    /\ raised' = <<data>>
    /\ origin' = Count("callback")
    /\ UNCHANGED <<panic, exception, op, prev, nstored, stores, takes, shown,
                   frames, stashes, resumes>>

\* the callback's frame is left through handle_panic; the engine goes on
\* running when it gets a value and hands the sentinel on to its caller
Ferry ==
    /\ ~Running
    /\ Top = "callback"
    /\ LET r == handle_panic(panic, exception, flight[1])
       IN  /\ panic' = r.panic
           /\ exception' = r.exception
           /\ op' = Op("handle_panic", flight, <<>>, <<>>, <<>>, r.outcome, r.calls)
           /\ prev' = Summary(op)
           /\ flight' = IF JS_VALUE_GET_NORM_TAG(r.outcome.value[1]) = JS_TAG_EXCEPTION
                        THEN <<r.outcome>> ELSE <<>>
           /\ stashes' = IF flight[1].kind = "panic" THEN stashes + 1 ELSE stashes
    /\ frames' = Pop(frames)
    /\ UNCHANGED <<nstored, stores, takes, shown, raised, origin, resumes>>

\* the engine call's frame is left through handle_exception; the caller goes
\* on running with Ok(v) or Err(Exception), or unwinds with the resumed panic
Resolver ==
    /\ ~Running
    /\ Top = "engine"
    /\ LET r == handle_exception(panic, flight[1].value[1])
       IN  /\ panic' = r.panic
           /\ op' = Op("handle_exception", <<>>, flight[1].value, <<>>, <<>>,
                       r.outcome, <<>>)
           /\ prev' = Summary(op)
           /\ flight' = IF r.outcome.kind = "panic" THEN <<r.outcome>> ELSE <<>>
           /\ resumes' = IF r.outcome.kind = "panic" THEN resumes + 1 ELSE resumes
    /\ frames' = Pop(frames)
    /\ UNCHANGED <<exception, nstored, stores, takes, shown, raised, origin, stashes>>

NestedNext ==
    \/ CallEngine
    \/ InvokeCallback
    \/ \E v \in NativeValues : EngineReturns(v)
    \/ \E v \in NativeValues : CallbackReturns(v)
    \/ \E e \in ProtocolErrors : \E env \in Envs(e) : CallbackThrows(e, env)
    \/ \E d \in PanicData : CallbackPanics(d)
    \/ Ferry
    \/ Resolver

NestedSpec == Init /\ [][NestedNext]_vars

\* ================================================================ claims
IsFerriedPanic(o) ==
    o.name = "handle_panic" /\ o.work[1].kind = "panic"

SawSentinel(o) ==
    o.name = "handle_exception" /\ JS_VALUE_GET_NORM_TAG(o.js_val[1]) = JS_TAG_EXCEPTION

\* C1: when a callback run under handle_panic panics with payload P and the
\* sentinel handle_panic returned is passed to handle_exception by the next
\* operation on the context, that call unwinds with a panic carrying exactly
\* P; it returns neither Err(Exception) nor any other value.
C1_FerriedPanicResumed ==
    [][(/\ IsFerriedPanic(op)
        /\ op'.name = "handle_exception"
        /\ op'.js_val = op.outcome.value)
       => op'.outcome = Unwind(op.work[1].payload[1])]_vars

C1_Witness ==
    /\ IsFerriedPanic(prev)
    /\ op.name = "handle_exception"
    /\ op.js_val = prev.outcome.value
    /\ op.outcome.kind = "panic"
    /\ op.outcome.payload = prev.work[1].payload

\* C2: after a handle_exception call on the sentinel has taken the slot and
\* resumed the panic, a second handle_exception call on the sentinel, with no
\* ferried panic in between, resumes nothing: it finds the slot empty and
\* returns Err(Exception).
C2_SecondResolveIsException ==
    [][(/\ SawSentinel(op)
        /\ op.outcome.kind = "panic"
        /\ SawSentinel(op'))
       => (/\ panic = <<>>
           /\ op'.outcome = Err([variant |-> "Exception"])
           /\ panic' = <<>>
           /\ takes' = takes)]_vars

C2_Witness ==
    /\ prev.name = "handle_exception"
    /\ prev.outcome.kind = "panic"
    /\ SawSentinel(op)
    /\ op.outcome.kind = "Err"
    /\ panic = <<>>

\* a resolver that observes the sentinel has just run
ResolverRan ==
    SawSentinel(op) \/ op.name = "raise_exception"

\* C3, as claimed: every intercepted payload is stored exactly once and taken
\* exactly once, by the next resolver that observes the sentinel, which
\* leaves the slot empty.
C3_EveryPayloadTakenOnce ==
    /\ \A i \in 1..nstored : stores[i] = 1 /\ takes[i] <= 1
    /\ ResolverRan =>
        /\ panic = <<>>
        /\ \A i \in 1..nstored : takes[i] = 1

\* C3, amended: every intercepted payload is stored exactly once and taken at
\* most once; the slot holds the payload of the latest interception or
\* nothing; a payload that was not taken is either still in the slot or was
\* overwritten there by a later interception; a resolver that observes the
\* sentinel leaves the slot empty, having taken what it held.
C3_SlotLifecycle ==
    /\ \A i \in 1..nstored : stores[i] = 1 /\ takes[i] <= 1
    /\ \A i \in (nstored + 1)..MaxPanics : stores[i] = 0 /\ takes[i] = 0
    /\ panic # <<>> => panic[1].id = nstored /\ takes[nstored] = 0
    /\ \A i \in 1..nstored :
         takes[i] = 0 => (panic # <<>> /\ panic[1].id = i) \/ i < nstored
    /\ ResolverRan =>
        /\ panic = <<>>
        /\ nstored > 0 => takes[nstored] = 1

C3_Witness ==
    /\ ResolverRan
    /\ op.outcome.kind = "panic"
    /\ nstored >= 2
    /\ takes[1] = 0
    /\ takes[2] = 1
    /\ panic = <<>>

\* C4, as claimed: a ferry whose work panics stores the payload in the slot,
\* returns the sentinel, and performs no engine operation: the pending
\* exception is what it was before.
C4_FerryLeavesEngineAlone ==
    [][IsFerriedPanic(op')
       => (/\ panic' = op'.work[1].payload
           /\ op'.outcome = Return(JS_EXCEPTION)
           /\ op'.calls = <<>>
           /\ exception' = exception)]_vars

\* C4, amended: a ferry whose work panics stores the payload in the slot
\* (replacing whatever was there) and returns the sentinel; it builds no
\* message and no error object, and its one engine operation is the raise
\* (JS_Throw) of the bare exception-tag value, which becomes the pending
\* exception.
C4_FerryRaisesBareSentinel ==
    [][IsFerriedPanic(op')
       => (/\ panic' = op'.work[1].payload
           /\ op'.outcome = Return(JS_EXCEPTION)
           /\ op'.calls = <<"JS_Throw">>
           /\ exception' = <<JS_MKVAL(JS_TAG_EXCEPTION, 0)>>
           /\ exception'[1].class = "" /\ exception'[1].message = <<>>)]_vars

C4_Witness ==
    /\ IsFerriedPanic(op)
    /\ IsFerriedPanic(prev)
    /\ panic = op.work[1].payload
    /\ panic # prev.work[1].payload
    /\ exception = <<JS_EXCEPTION>>

\* C5: for a native value whose tag is not the exception tag,
\* handle_exception returns Ok of that very value and neither takes nor
\* resumes the pending panic: the slot, empty or full, is what it was.
C5_ResolverPassThrough ==
    [][(/\ op'.name = "handle_exception"
        /\ JS_VALUE_GET_NORM_TAG(op'.js_val[1]) # JS_TAG_EXCEPTION)
       => (/\ op'.outcome = Ok(op'.js_val[1])
           /\ panic' = panic
           /\ takes' = takes)]_vars

C5_Witness ==
    /\ op.name = "handle_exception"
    /\ JS_VALUE_GET_NORM_TAG(op.js_val[1]) # JS_TAG_EXCEPTION
    /\ op.outcome = Ok(op.js_val[1])
    /\ panic # <<>>

\* C8: with the slot empty, the native value Error::Allocation.throw(ctx)
\* returned, passed to handle_exception, yields Err(Exception); so does the
\* value returned by the throw of any other variant.
C8_ThrowThenResolve ==
    [][(/\ op.name = "throw"
        /\ op.outcome.kind = "return"
        /\ panic = <<>>
        /\ op'.name = "handle_exception"
        /\ op'.js_val = op.outcome.value)
       => op'.outcome = Err([variant |-> "Exception"])]_vars

C8_Witness ==
    /\ prev.name = "throw"
    /\ prev.error = <<[variant |-> "Allocation"]>>
    /\ op.name = "handle_exception"
    /\ op.js_val = prev.outcome.value
    /\ op.outcome = Err([variant |-> "Exception"])

\* the pending exception a message-taking constructor leaves for error e
Raised(class, e) == <<JS_Object(class, <<fmt(e)>>)>>

\* C6: throw picks the engine operation by the variant alone.  Exception:
\* the sentinel, no engine call, pending exception unchanged.  Allocation:
\* the out-of-memory constructor.  InvalidString, Utf8, FromJs, IntoJs,
\* NumArgs: a type error with the rendered message.  Resolving, Loading: a
\* reference error.  Unknown: an internal error.  Every other variant: a
\* generic error object whose `message` is the rendered text, raised as the
\* pending exception (when the constructor and the property-set succeed).
C6_MaterializerPolicy ==
    [][op'.name = "throw" =>
        LET e == op'.error[1]
            v == e.variant
            env == op'.env[1]
        IN  /\ v = "Exception" =>
                /\ op'.outcome = Return(JS_EXCEPTION)
                /\ op'.calls = <<>>
                /\ exception' = exception
            /\ v = "Allocation" =>
                /\ op'.calls = <<"JS_ThrowOutOfMemory">>
                /\ exception' = <<JS_Object("OutOfMemory", <<>>)>>
            /\ v \in {"InvalidString", "Utf8", "FromJs", "IntoJs", "NumArgs"} =>
                /\ op'.calls = <<"JS_ThrowTypeError">>
                /\ exception' = Raised("TypeError", e)
            /\ v \in {"Resolving", "Loading"} =>
                /\ op'.calls = <<"JS_ThrowReferenceError">>
                /\ exception' = Raised("ReferenceError", e)
            /\ v = "Unknown" =>
                /\ op'.calls = <<"JS_ThrowInternalError">>
                /\ exception' = Raised("InternalError", e)
            /\ v \in {"DuplicateExports", "InvalidCStr", "Io", "UnrelatedRuntime"} =>
                /\ op'.calls[1] = "JS_NewError"
                /\ (env.newError /\ env.set = <<>>) =>
                    /\ op'.calls = <<"JS_NewError", "Object::set", "JS_Throw">>
                    /\ exception' = Raised("Error", e)
                    /\ op'.outcome = Return(JS_EXCEPTION)]_vars

\* C7: on the generic path of throw, a JS_NewError that returns an
\* exception-tagged value ends the throw with that value, without property-set
\* or raise; a property-set that fails with Err(Exception) ends it with the
\* sentinel, without raise; a property-set that fails with another error makes
\* throw panic and return nothing; JS_Throw is called only when both earlier
\* steps succeeded.
C7_GenericPathFailures ==
    (op.name = "throw" /\ op.error[1].variant \in GenericVariants) =>
        LET env == op.env[1]
        IN  /\ ~env.newError =>
                /\ op.outcome = Return(JS_NewError(<<>>, FALSE).result)
                /\ op.calls = <<"JS_NewError">>
            /\ (env.newError /\ env.set # <<>> /\ env.set[1].variant = "Exception") =>
                /\ op.outcome = Return(JS_EXCEPTION)
                /\ op.calls = <<"JS_NewError", "Object::set">>
            /\ (env.newError /\ env.set # <<>> /\ env.set[1].variant # "Exception") =>
                /\ op.outcome.kind = "panic"
                /\ op.outcome.value = <<>>
                /\ op.calls = <<"JS_NewError", "Object::set">>
            /\ (\E i \in 1..Len(op.calls) : op.calls[i] = "JS_Throw")
                    <=> (env.newError /\ env.set = <<>>)

C7_Witness ==
    /\ op.name = "throw"
    /\ op.error[1].variant = "Io"
    /\ op.env[1].newError
    /\ op.env[1].set = <<[variant |-> "Allocation"]>>
    /\ op.outcome.kind = "panic"
    /\ op.calls = <<"JS_NewError", "Object::set">>

\* C9: for every Error e the rendered text is non-empty and holds no
\* terminator byte, and to_cstring(e) is the rendered text followed by exactly
\* one terminator byte, with no terminator byte at an earlier position.
C9_CStringWellFormed ==
    shown # <<>> =>
        LET s == shown[1]
        IN  /\ s.text = fmt(s.error)
            /\ s.text # <<>>
            /\ FirstZero(s.text, 1) > Len(s.text)
            /\ s.cstring = s.text \o <<0>>
            /\ FirstZero(s.cstring, 1) = Len(s.cstring)

\* C10: with calls nested n >= 1 deep on one context, a panic with payload P
\* raised in the innermost callback is stashed by every enclosing ferry and
\* taken by every enclosing resolver: while it travels, either a callback or
\* the host is unwinding with P and the slot is empty, or the engine is
\* returning the sentinel and the slot holds P; no resolver returns an Error
\* in its place; and once the outermost handle_exception has run, the host
\* unwinds with P, the slot is empty, and n ferries and n resolvers have
\* carried it.
C10_NestedPanicReachesHost ==
    raised # <<>> =>
        LET P == Payload(0, raised[1])
        IN  /\ origin >= 1
            /\ ~Running
            /\ Top = "engine" =>
                /\ flight = <<Return(JS_EXCEPTION)>>
                /\ panic = <<P>>
                /\ op.name = "handle_panic"
            /\ Top # "engine" =>
                /\ flight = <<Unwind(P)>>
                /\ panic = <<>>
            /\ op.name = "handle_exception" /\ stashes > 0 =>
                op.outcome = Unwind(P)
            /\ stashes + Count("callback") = origin
            /\ resumes + Count("engine") = origin
            /\ Top = "host" =>
                /\ stashes = origin
                /\ resumes = origin
                /\ op.name = "handle_exception"

C10_Witness ==
    /\ raised # <<>>
    /\ Top = "host"
    /\ origin = MaxDepth
    /\ stashes = MaxDepth
    /\ resumes = MaxDepth
    /\ flight = <<Unwind(Payload(0, raised[1]))>>
    /\ panic = <<>>
====
